---- MODULE Spec2Model ----
(***************************************************************************)
(* BoomBox: the App component (library, playlists, media-source cache and  *)
(* playback session around one <audio> element).                           *)
(*                                                                         *)
(* One action is one turn of the renderer's event loop: an event handler or  *)
(* the continuation of an await, followed by the React commit it causes,   *)
(* i.e. the effects whose dependencies changed. Handlers are operators on  *)
(* a record s holding the whole state, applied in the order of the code.   *)
(* The 'play' and 'pause' events of the element are delivered in the turn  *)
(* that calls play() or pause().                                           *)
(***************************************************************************)
EXTENDS Integers, Sequences, FiniteSets, Bags, TLC

VARIABLES
    tracks,             \* useState([]): sequence of track records
    playlists,          \* useState([]): sequence of [id, name, trackIds]
    selectedPlaylistId, \* useState('all')
    activeView,         \* useState('home'): "home" or "library"
    searchQuery,        \* useState(''): the characters of the query
    srcMap,             \* useState({}): track id -> blob URL
    currentIndex,       \* useState(-1), 0-based
    isPlaying, currentTime, duration, isLoading, loadError,
    shouldAutoPlayRef,  \* useRef(false)
    blobUrlsRef,        \* useRef(new Set())
    audio,              \* the <audio> element: src, paused, readyState
    revoked,            \* URLs passed to URL.revokeObjectURL that something still refers to
    reads,              \* bag of readAudio calls in flight: [track, cancelled]
    openFiles,          \* bag of openFiles() dialogs open: the currentIndex each captured
    tryPlay,            \* number of tryPlay listeners attached for 'canplay'
    checkReady,         \* playPause() calls waiting for 'canplay' or their timeout
    boombox,            \* window.boombox is defined (the Electron preload ran)
    stored,             \* localStorage 'boombox:library': [parsable, tracks, playlists]
    last,               \* history: what the last step was, as a set of tags
    args,               \* history: the arguments of the last playlist command
    cycle               \* history: the calls of next() in succession, and the index before them

vars == <<tracks, playlists, selectedPlaylistId, activeView, searchQuery, srcMap, currentIndex, isPlaying,
          currentTime, duration, isLoading, loadError, shouldAutoPlayRef,
          blobUrlsRef, audio, revoked, reads, openFiles, tryPlay, checkReady,
          boombox, stored, last, args, cycle>>

\* ------------------------------------------------------------------ bounds
MaxTracks == 2      \* tracks in the library
MaxClock == 0       \* Date.now() takes the values 0..MaxClock
MaxUrls == 3        \* object URLs referred to at a time
MaxReads == 2       \* readAudio calls in flight
MaxLoading == 1     \* readAudio calls in flight while the element's events are followed
MaxListeners == 1   \* pending auto-play and playPause waits, each
MaxPlaylists == 2   \* playlists
MaxMembers == 2     \* identities in a playlist
MaxShelf == 1       \* playlists while every source of tracks is followed
MaxStamp == 1       \* Date.now() takes the values 0..MaxStamp when a playlist is created
MaxPick == 2        \* files picked in one dialog

\* ------------------------------------------------------------------ values
NoSrc == <<>>                       \* audio.src = '' ; also null for a URL
Null == <<>>                        \* loadError null
NoPath == <<>>
All == <<"all">>                    \* selectedPlaylistId 'all'
Paths == {<<"music", "a.mp3">>, <<"music", "B.wav">>}
FileNames == {"f.ogg"}
Clock == 0..MaxClock
Stamps == 0..MaxStamp
Names == {"", " ", " Chill "}

RECURSIVE SeqsOver(_, _)
SeqsOver(S, n) ==
    IF n = 0 THEN {<<>>}
    ELSE LET shorter == SeqsOver(S, n - 1)
         IN shorter \cup {Append(q, x) : q \in {p \in shorter : Len(p) = n - 1}, x \in S}

Distinct(q) == \A i, j \in DOMAIN q : i # j => q[i] # q[j]
Range(q) == {q[i] : i \in DOMAIN q}

\* what a native multi-selection dialog, resp. a file input, can hand over
PathLists == {q \in SeqsOver(Paths, MaxPick) : Distinct(q)}
FileLists == {q \in SeqsOver(FileNames, MaxPick) : Len(q) > 0}

\* ------------------------------------------------------------------ strings
\* the characters of the titles a track can have
Letters(title) ==
    CASE title = "a.mp3" -> <<"a", ".", "m", "p", "3">>
      [] title = "B.wav" -> <<"B", ".", "w", "a", "v">>
      [] title = "f.ogg" -> <<"f", ".", "o", "g", "g">>

\* what can be typed into the search field
Queries == {<<>>, <<" ">>, <<"A">>, <<" ", "b", " ">>, <<".", "W">>, <<"g", "g">>, <<"x">>}

\* String.prototype.toLowerCase, for the characters of Letters and Queries
lowerCase(c) == CASE c = "A" -> "a" [] c = "B" -> "b" [] c = "W" -> "w" [] OTHER -> c
toLowerCase(str) == [i \in DOMAIN str |-> lowerCase(str[i])]

\* String.prototype.trim
RECURSIVE trimStart(_)
trimStart(str) ==
    IF str # <<>> /\ Head(str) = " " THEN trimStart(Tail(str)) ELSE str
RECURSIVE trimEnd(_)
trimEnd(str) ==
    IF str # <<>> /\ str[Len(str)] = " " THEN trimEnd(SubSeq(str, 1, Len(str) - 1)) ELSE str
trim(str) == trimEnd(trimStart(str))

\* String.prototype.includes
includes(str, search) ==
    \E i \in 1..(Len(str) + 1) :
        /\ i + Len(search) - 1 <= Len(str)
        /\ SubSeq(str, i, i + Len(search) - 1) = search

\* ------------------------------------------------------------------ state record
St ==
    [tracks |-> tracks, playlists |-> playlists, selectedPlaylistId |-> selectedPlaylistId,
     activeView |-> activeView, searchQuery |-> searchQuery,
     srcMap |-> srcMap, currentIndex |-> currentIndex, isPlaying |-> isPlaying,
     currentTime |-> currentTime, duration |-> duration, isLoading |-> isLoading,
     loadError |-> loadError, shouldAutoPlayRef |-> shouldAutoPlayRef,
     blobUrlsRef |-> blobUrlsRef, audio |-> audio, revoked |-> revoked, reads |-> reads,
     openFiles |-> openFiles, tryPlay |-> tryPlay, checkReady |-> checkReady,
     boombox |-> boombox, stored |-> stored]

Set(s) ==
    /\ tracks' = s.tracks
    /\ playlists' = s.playlists
    /\ selectedPlaylistId' = s.selectedPlaylistId
    /\ activeView' = s.activeView
    /\ searchQuery' = s.searchQuery
    /\ srcMap' = s.srcMap
    /\ currentIndex' = s.currentIndex
    /\ isPlaying' = s.isPlaying
    /\ currentTime' = s.currentTime
    /\ duration' = s.duration
    /\ isLoading' = s.isLoading
    /\ loadError' = s.loadError
    /\ shouldAutoPlayRef' = s.shouldAutoPlayRef
    /\ blobUrlsRef' = s.blobUrlsRef
    /\ audio' = s.audio
    /\ revoked' = s.revoked
    /\ reads' = s.reads
    /\ openFiles' = s.openFiles
    /\ tryPlay' = s.tryPlay
    /\ checkReady' = s.checkReady
    /\ boombox' = s.boombox
    /\ stored' = s.stored

Within(s) ==
    /\ Len(s.tracks) <= MaxTracks
    /\ Len(s.playlists) <= MaxPlaylists
    /\ \A i \in DOMAIN s.playlists : Len(s.playlists[i].trackIds) <= MaxMembers
    /\ Cardinality(s.blobUrlsRef \cup s.revoked) <= MaxUrls
    /\ BagCardinality(s.reads) <= MaxReads
    /\ s.tryPlay <= MaxListeners
    /\ s.checkReady <= MaxListeners

\* ------------------------------------------------------------------ helpers
Ids(ts) == {ts[i].id : i \in DOMAIN ts}
TrackIdList(ts) == [i \in DOMAIN ts |-> ts[i].id]

\* tracks[currentIndex] || null
HasCurrent(s) == s.currentIndex >= 0 /\ s.currentIndex < Len(s.tracks)
currentTrack(s) == s.tracks[s.currentIndex + 1]
\* currentTrack?.id, <<>> for undefined
CurrentId(s) == IF HasCurrent(s) THEN currentTrack(s).id ELSE <<>>

\* p.split(/\\|\//).pop()
Title(p) == p[Len(p)]

Lookup(m, k) == IF k \in DOMAIN m THEN m[k] ELSE NoSrc
Put(m, k, v) == [x \in DOMAIN m \cup {k} |-> IF x = k THEN v ELSE m[x]]
Drop(m, ks) == [x \in DOMAIN m \ ks |-> m[x]]

\* ------------------------------------------------------------------ the <audio> element
\* audio.pause(), and handlePause on the 'pause' event it fires
audioPause(s) ==
    IF s.audio.paused THEN s
    ELSE [s EXCEPT !.audio.paused = TRUE, !.isPlaying = FALSE]

\* audio.src = url (and audio.load()): the element's load algorithm
audioLoad(s, url) ==
    [s EXCEPT !.audio = [src |-> url, paused |-> TRUE, readyState |-> "loading"]]

\* audio.play() rejects at once when the element is in error
playRejects(s) == s.audio.readyState = "error"

\* audio.play() otherwise: paused becomes false; handlePlay on 'play', and
\* handleWaiting on 'waiting' when the element has no data to play yet
audioPlay(s) ==
    IF ~s.audio.paused THEN s
    ELSE [s EXCEPT !.audio.paused = FALSE,
                   !.isPlaying = TRUE,
                   !.isLoading = IF s.audio.readyState = "ready" THEN @ ELSE TRUE]

\* ------------------------------------------------------------------ media source resolver
\* the least number >= 1 that is not in used
LeastFree(used) ==
    CHOOSE n \in 1..(Cardinality(used) + 1) :
        n \notin used /\ \A m \in 1..(n - 1) : m \in used

\* URL.createObjectURL never hands out a URL twice. A name is used again only
\* when nothing refers to the URL that had it (cache, live set, element).
UrlsInUse(s) ==
    s.blobUrlsRef \cup s.revoked \cup {s.srcMap[k] : k \in DOMAIN s.srcMap} \cup {s.audio.src}
NewUrl(s) == <<"blob", LeastFree({u[2] : u \in UrlsInUse(s) \ {NoSrc}})>>

\* if (shouldAutoPlayRef.current) ...: tryPlay is attached for 'canplay'
\* (readyState is 0 right after load(), so it is not called at once)
autoPlay(s) ==
    IF s.shouldAutoPlayRef
    THEN [s EXCEPT !.shouldAutoPlayRef = FALSE, !.tryPlay = @ + 1]
    ELSE s

\* a .then callback that does not look at cancelled
bind_ignoresCancelled(s, url, cancelled) ==
    IF url = NoSrc THEN s
    ELSE autoPlay([audioLoad(audioPause(s), url) EXCEPT
                      !.currentTime = 0, !.duration = 0, !.isPlaying = FALSE])

\* the .then callback of the track-change effect
bind(s, url, cancelled) ==
    IF cancelled \/ url = NoSrc THEN s
    ELSE autoPlay([audioLoad(audioPause(s), url) EXCEPT
                      !.currentTime = 0, !.duration = 0, !.isPlaying = FALSE])

\* blobUrlsRef.current.add(url); setSrcMap(...); setIsLoading(false); return url,
\* and the .then callback on that url
cacheUrl(s, track, url, cancelled) ==
    bind([s EXCEPT !.blobUrlsRef = @ \cup {url},
                   !.srcMap = Put(@, track.id, url),
                   !.isLoading = FALSE], url, cancelled)

\* URL.createObjectURL(blob) and what follows it
createUrl(s, track, cancelled) == cacheUrl(s, track, NewUrl(s), cancelled)

\* preloadTrackBlob(track) when srcMap has no live URL for the track
loadTrackBlob(s, track) ==
    IF track.file THEN createUrl(s, track, FALSE)
    ELSE IF track.path # NoPath /\ s.boombox
    THEN [s EXCEPT !.isLoading = TRUE, !.loadError = Null,
                   !.reads = @ (+) SetToBag({[track |-> track, cancelled |-> FALSE]})]
    ELSE s

\* a preloadTrackBlob that does not look into srcMap
preloadTrackBlob_ignoresCache(s, track) == loadTrackBlob(s, track)

\* preloadTrackBlob(track) up to its first await, and the effect's .then when
\* the promise is settled without one. srcMap is the one of the render.
preloadTrackBlob(s, track) ==
    IF Lookup(s.srcMap, track.id) # NoSrc
    THEN IF Lookup(s.srcMap, track.id) \in s.blobUrlsRef
         THEN bind(s, Lookup(s.srcMap, track.id), FALSE)
         ELSE loadTrackBlob([s EXCEPT !.srcMap = Drop(@, {track.id})], track)
    ELSE loadTrackBlob(s, track)

\* a continuation without the catch: a URL is made whatever the read gave
readAudioDone_ignoresFailure(s, r, ok) ==
    createUrl([s EXCEPT !.reads = @ (-) SetToBag({r})], r.track, r.cancelled)

\* preloadTrackBlob after await readAudio(path), and the effect's .then
readAudioDone(s, r, ok) ==
    IF ok
    THEN createUrl([s EXCEPT !.reads = @ (-) SetToBag({r})], r.track, r.cancelled)
    ELSE [s EXCEPT !.reads = @ (-) SetToBag({r}),
                   !.loadError = <<"Failed to load: ", r.track.title>>,
                   !.isLoading = FALSE]

\* ------------------------------------------------------------------ effects
countIn(b, r) == IF r \in DOMAIN b THEN b[r] ELSE 0

\* the cleanup of the previous run of the track-change effect: cancelled = true
cancelReads(b) ==
    [c \in {[r EXCEPT !.cancelled = TRUE] : r \in BagToSet(b)} |->
        countIn(b, c) + countIn(b, [c EXCEPT !.cancelled = FALSE])]

\* the body of the track-change effect
trackChangeBody(s) ==
    IF ~HasCurrent(s)
    THEN [audioLoad(audioPause(s), NoSrc) EXCEPT !.isPlaying = FALSE,
                                                  !.currentTime = 0, !.duration = 0]
    ELSE preloadTrackBlob([s EXCEPT !.isLoading = TRUE, !.loadError = Null],
                          currentTrack(s))

\* useEffect(..., [currentTrack?.id]): the cleanup of the last run, then the body
trackChangeEffect(s) == trackChangeBody([s EXCEPT !.reads = cancelReads(@)])

\* an updater that revokes the URLs and leaves their entries in srcMap
dropUrls_keepsEntries(s, gone, urls) ==
    [s EXCEPT !.blobUrlsRef = @ \ urls, !.revoked = @ \cup urls]

\* the updater of the removed-track effect, for the cached ids in gone
dropUrls(s, gone, urls) ==
    [s EXCEPT !.blobUrlsRef = @ \ urls, !.revoked = @ \cup urls, !.srcMap = Drop(@, gone)]

\* useEffect(..., [tracks.map(t => t.id).join(',')]): drop and revoke the
\* URLs cached for tracks that are no longer in the library
removedTracksEffect(s) ==
    dropUrls(s, DOMAIN s.srcMap \ Ids(s.tracks),
             {s.srcMap[k] : k \in DOMAIN s.srcMap \ Ids(s.tracks)})

\* tracks.filter((t) => !!t.path).map((t) => ({ id, path, title }))
serializableTracks(ts) ==
    [i \in DOMAIN SelectSeq(ts, LAMBDA x : x.path # NoPath) |->
        [id |-> SelectSeq(ts, LAMBDA x : x.path # NoPath)[i].id,
         path |-> SelectSeq(ts, LAMBDA x : x.path # NoPath)[i].path,
         title |-> SelectSeq(ts, LAMBDA x : x.path # NoPath)[i].title]]

\* a persist effect that writes every track
persist_everyTrack(s) ==
    [s EXCEPT !.stored = [parsable |-> TRUE,
                          tracks |-> [i \in DOMAIN s.tracks |->
                              [id |-> s.tracks[i].id, path |-> s.tracks[i].path,
                               title |-> s.tracks[i].title]],
                          playlists |-> s.playlists]]

\* localStorage.setItem('boombox:library', JSON.stringify({ tracks, playlists }))
persist(s) ==
    [s EXCEPT !.stored = [parsable |-> TRUE, tracks |-> serializableTracks(s.tracks),
                          playlists |-> s.playlists]]

\* useEffect(..., [tracks, playlists]): the persist effect
persistEffect(prev, s) ==
    IF prev.tracks # s.tracks \/ prev.playlists # s.playlists THEN persist(s) ELSE s

\* a search effect that leaves the view as it is
searchEffect_keepsView(s) == s

\* useEffect(..., [searchQuery, activeView]): searching shows the library
searchEffect(s) ==
    IF trim(s.searchQuery) # <<>> /\ s.activeView # "library"
    THEN [s EXCEPT !.activeView = "library", !.selectedPlaylistId = All]
    ELSE s

\* the effects run in the order of their definition
runEffects(prev, s, a) ==
    IF TrackIdList(prev.tracks) # TrackIdList(s.tracks) THEN removedTracksEffect(a) ELSE a

\* the commit after a handler: prev is the state the last render showed
Effects(prev, s) ==
    searchEffect(runEffects(prev, s, IF CurrentId(prev) # CurrentId(s)
                                     THEN trackChangeEffect(persistEffect(prev, s))
                                     ELSE persistEffect(prev, s)))

\* a revoked URL is remembered for as long as something refers to it
forget(s) ==
    [s EXCEPT !.revoked = @ \cap (s.blobUrlsRef \cup {s.srcMap[k] : k \in DOMAIN s.srcMap}
                                   \cup {s.audio.src})]

Step(n) == Within(n) /\ Set(n)
\* the step makes a track current whose identity has a live entry in srcMap
CacheHit(s) ==
    /\ HasCurrent(s)
    /\ CurrentId(s) # CurrentId(St)
    /\ Lookup(srcMap, CurrentId(s)) # NoSrc
    /\ Lookup(srcMap, CurrentId(s)) \in blobUrlsRef

\* a handler called with the arguments a, and the commit it causes
Call(tags, a, s) ==
    \E before \in {St}, handled \in {s} :
    \E after \in {forget(Effects(before, handled))} :
        /\ Step(after)
        /\ last' = tags \cup (IF CacheHit(handled) THEN {"cached"} ELSE {})
        /\ args' = a

Commit(tags, s) == Call(tags, <<>>, s)

\* ------------------------------------------------------------------ library store
pathTrack(p, now) == [id |-> <<"path", p, now>>, path |-> p, file |-> FALSE, title |-> Title(p)]
fileTrack(f, uuid) == [id |-> <<"file", f, uuid>>, path |-> NoPath, file |-> TRUE, title |-> f]

\* setTracks(prev => [...prev, ...newItems]);
\* if (currentIndex === -1 && newItems.length) setCurrentIndex(0)
appendTracks(s, index, newItems) ==
    IF Len(newItems) = 0 THEN s
    ELSE [s EXCEPT !.tracks = @ \o newItems,
                   !.currentIndex = IF index = -1 THEN 0 ELSE @]

\* the .then of handleAddFiles; captured is the currentIndex of the render
\* in which the button was clicked
addFiles(s, captured, filePaths, now) ==
    appendTracks(s, captured, [i \in DOMAIN filePaths |-> pathTrack(filePaths[i], now)])

\* crypto.randomUUID(): k values that no identity the session still holds was
\* made from (library, playlists, cache, reads in flight)
IdsHeld(s) ==
    Ids(s.tracks) \cup DOMAIN s.srcMap \cup {r.track.id : r \in BagToSet(s.reads)}
    \cup UNION {Range(s.playlists[i].trackIds) : i \in DOMAIN s.playlists}

RECURSIVE fresh(_, _)
fresh(used, k) ==
    IF k = 0 THEN <<>>
    ELSE <<LeastFree(used)>> \o fresh(used \cup {LeastFree(used)}, k - 1)

randomUUIDs(s, k) == fresh({id[3] : id \in {x \in IdsHeld(s) : x[1] = "file"}}, k)

importFiles(s, files, uuid) ==
    appendTracks(s, s.currentIndex, [i \in DOMAIN files |-> fileTrack(files[i], uuid[i])])

onFileInput(s, files) == importFiles(s, files, randomUUIDs(s, Len(files)))

without(ids, trackId) == SelectSeq(ids, LAMBDA x : x # trackId)

\* a deleteTrack that leaves the playlists alone
removeTrack_keepsPlaylists(s, trackId) ==
    [s EXCEPT !.tracks = SelectSeq(@, LAMBDA x : x.id # trackId)]

\* setTracks(...filter...); setPlaylists(...filter...)
removeTrack(s, trackId) ==
    [s EXCEPT !.tracks = SelectSeq(@, LAMBDA x : x.id # trackId),
              !.playlists = [i \in DOMAIN s.playlists |->
                  [s.playlists[i] EXCEPT !.trackIds = without(@, trackId)]]]

\* a deleteTrack that does not ask
deleteTrack_unconfirmed(s, trackId, confirmed) ==
    IF trackId \notin Ids(s.tracks) THEN s
    ELSE IF s.currentIndex >= 0 /\ CurrentId(s) = trackId
    THEN [audioLoad(audioPause(removeTrack(s, trackId)), NoSrc) EXCEPT
             !.currentIndex = -1, !.isPlaying = FALSE]
    ELSE removeTrack(s, trackId)

deleteTrack(s, trackId, confirmed) ==
    IF trackId \notin Ids(s.tracks) THEN s
    ELSE IF ~confirmed THEN s
    ELSE IF s.currentIndex >= 0 /\ CurrentId(s) = trackId
    THEN [audioLoad(audioPause(removeTrack(s, trackId)), NoSrc) EXCEPT
             !.currentIndex = -1, !.isPlaying = FALSE]
    ELSE removeTrack(s, trackId)

\* name.trim(), for the names of Names
Trim(name) == IF name \in {" Chill ", "Chill"} THEN "Chill" ELSE ""

\* an onConfirm that takes every name
createPlaylist_anyName(s, name, now) ==
    [s EXCEPT !.playlists = Append(@, [id |-> <<"pl", now>>, name |-> Trim(name),
                                        trackIds |-> <<>>]),
              !.selectedPlaylistId = <<"pl", now>>]

\* onConfirm of the 'Create New Playlist' prompt
createPlaylist(s, name, now) ==
    IF Trim(name) = "" THEN s
    ELSE [s EXCEPT !.playlists = Append(@, [id |-> <<"pl", now>>, name |-> Trim(name),
                                            trackIds |-> <<>>]),
                   !.selectedPlaylistId = <<"pl", now>>]

PlaylistIds(s) == {s.playlists[i].id : i \in DOMAIN s.playlists}

\* a deletePlaylist that leaves the selection alone
deletePlaylist_keepsSelection(s, playlistId, confirmed) ==
    IF playlistId \notin PlaylistIds(s) THEN s
    ELSE IF ~confirmed THEN s
    ELSE [s EXCEPT !.playlists = SelectSeq(@, LAMBDA x : x.id # playlistId)]

deletePlaylist(s, playlistId, confirmed) ==
    IF playlistId \notin PlaylistIds(s) THEN s
    ELSE IF ~confirmed THEN s
    ELSE [s EXCEPT !.playlists = SelectSeq(@, LAMBDA x : x.id # playlistId),
                   !.selectedPlaylistId = IF @ = playlistId THEN All ELSE @]

\* playlists.find(p => p.id === playlistId): the first one with that id
findPlaylist(s, playlistId) ==
    s.playlists[CHOOSE i \in DOMAIN s.playlists :
                    /\ s.playlists[i].id = playlistId
                    /\ \A j \in 1..(i - 1) : s.playlists[j].id # playlistId]

addToPlaylist(s, trackId, playlistId) ==
    IF playlistId = All THEN s
    ELSE IF trackId \notin Ids(s.tracks) \/ playlistId \notin PlaylistIds(s) THEN s
    ELSE IF trackId \in Range(findPlaylist(s, playlistId).trackIds) THEN s
    ELSE [s EXCEPT !.playlists = [i \in DOMAIN s.playlists |->
             IF s.playlists[i].id = playlistId
                /\ trackId \notin Range(s.playlists[i].trackIds)
             THEN [s.playlists[i] EXCEPT !.trackIds = Append(@, trackId)]
             ELSE s.playlists[i]]]

\* targetPlaylistId is Null when the caller gives none
addToSelectedPlaylist(s, trackId, targetPlaylistId) ==
    addToPlaylist(s, trackId, IF targetPlaylistId # Null THEN targetPlaylistId
                              ELSE s.selectedPlaylistId)

removeFromPlaylist(s, trackId) ==
    IF s.selectedPlaylistId = All THEN s
    ELSE IF s.selectedPlaylistId \notin PlaylistIds(s) THEN s
    ELSE [s EXCEPT !.playlists = [i \in DOMAIN s.playlists |->
             IF s.playlists[i].id = s.selectedPlaylistId
             THEN [s.playlists[i] EXCEPT !.trackIds = without(@, trackId)]
             ELSE s.playlists[i]]]

\* the first filter of visibleTracks: the members of the selected playlist
byPlaylist(filtered, s) ==
    IF s.selectedPlaylistId # All /\ s.selectedPlaylistId \in PlaylistIds(s)
    THEN SelectSeq(filtered,
                   LAMBDA x : x.id \in Range(findPlaylist(s, s.selectedPlaylistId).trackIds))
    ELSE filtered

\* a search that compares the title as it is written
bySearch_caseSensitive(filtered, text) ==
    IF trim(text) # <<>>
    THEN SelectSeq(filtered,
                   LAMBDA x : includes(Letters(x.title), trim(toLowerCase(text))))
    ELSE filtered

\* a search that shows the first track found only
bySearch_found(filtered, text) ==
    SelectSeq(filtered,
              LAMBDA x : includes(toLowerCase(Letters(x.title)), trim(toLowerCase(text))))
bySearch_firstFound(filtered, text) ==
    IF trim(text) = <<>> THEN filtered
    ELSE IF bySearch_found(filtered, text) = <<>> THEN <<>>
    ELSE <<Head(bySearch_found(filtered, text))>>

\* the second filter of visibleTracks: the titles that contain the query
bySearch(filtered, text) ==
    IF trim(text) # <<>>
    THEN SelectSeq(filtered,
                   LAMBDA x : includes(toLowerCase(Letters(x.title)),
                                       trim(toLowerCase(text))))
    ELSE filtered

visibleTracks(s) == bySearch(byPlaylist(s.tracks, s), s.searchQuery)

\* ------------------------------------------------------------------ playback session
\* a % b of JavaScript, for b > 0: the sign of the result is that of a
Rem(a, b) == IF a >= 0 THEN a % b ELSE 0 - ((0 - a) % b)

\* a playIndex that takes index 0 for out of bounds
playIndex_rejectsFirst(s, index) ==
    IF index <= 0 \/ index >= Len(s.tracks) THEN s
    ELSE [audioPause(s) EXCEPT !.shouldAutoPlayRef = TRUE, !.currentIndex = index]

playIndex(s, index) ==
    IF index < 0 \/ index >= Len(s.tracks) THEN s
    ELSE [audioPause(s) EXCEPT !.shouldAutoPlayRef = TRUE, !.currentIndex = index]

\* a next() that does not wrap
next_noWrap(s) ==
    IF Len(s.tracks) = 0 THEN s
    ELSE playIndex(s, s.currentIndex + 1)

next(s) ==
    IF Len(s.tracks) = 0 THEN s
    ELSE playIndex(s, Rem(s.currentIndex + 1, Len(s.tracks)))

prev(s) ==
    IF Len(s.tracks) = 0 THEN s
    ELSE playIndex(s, Rem(s.currentIndex - 1 + Len(s.tracks), Len(s.tracks)))

\* await audio.play() inside playPause's try
playAttempt(s) ==
    IF playRejects(s)
    THEN [s EXCEPT !.loadError = <<"Failed to play audio. Try clicking play again.">>,
                   !.isPlaying = FALSE]
    ELSE audioPlay(s)

\* playPause() up to its first await
playPause(s) ==
    IF ~HasCurrent(s) THEN s
    ELSE IF s.audio.paused
         THEN IF s.audio.readyState # "ready"
              THEN [s EXCEPT !.isLoading = TRUE, !.checkReady = @ + 1]
              ELSE playAttempt(s)
         ELSE audioPause(s)

\* handleEnded; the element has paused itself at the end of the track
handleEnded(s) ==
    IF Len(s.tracks) > 0
    THEN [audioPause(s) EXCEPT !.isPlaying = FALSE, !.currentTime = 0,
                               !.shouldAutoPlayRef = TRUE,
                               !.currentIndex = Rem(s.currentIndex + 1, Len(s.tracks))]
    ELSE [audioPause(s) EXCEPT !.isPlaying = FALSE, !.currentTime = 0]

handleError(s) ==
    [s EXCEPT !.audio.readyState = "error",
              !.loadError = <<"Failed to play audio">>, !.isPlaying = FALSE]

handleLoadedMetadata(s) ==
    [s EXCEPT !.audio.readyState = "meta", !.duration = 1, !.isLoading = FALSE]

\* every tryPlay listener attached: readyState >= 2, so await audio.play()
\* and removeEventListener
runTryPlay(s) == IF s.tryPlay > 0 THEN [audioPlay(s) EXCEPT !.tryPlay = 0] ELSE s

\* every checkReady that has not timed out: resolve(), so playPause goes on
runCheckReady(s) == IF s.checkReady > 0 THEN [playAttempt(s) EXCEPT !.checkReady = 0] ELSE s

\* 'canplay' (and 'canplaythrough'): handleCanPlay and the listeners above
handleCanPlay(s) ==
    runCheckReady(runTryPlay([s EXCEPT !.audio.readyState = "ready", !.isLoading = FALSE]))

\* onTimeUpdate while the element plays: a.currentTime and a.duration are positive
onTimeUpdate(s) ==
    [s EXCEPT !.currentTime = 1, !.duration = 1]

\* ------------------------------------------------------------------ initial state
\* The state after mounting on an empty store: the track-change effect has
\* run its no-current-track branch (audio.pause(); audio.src = '').
Init ==
    /\ tracks = <<>>
    /\ playlists = <<>>
    /\ selectedPlaylistId = All
    /\ activeView = "home"
    /\ searchQuery = <<>>
    /\ srcMap = [k \in {} |-> NoSrc]
    /\ currentIndex = -1
    /\ isPlaying = FALSE
    /\ currentTime = 0
    /\ duration = 0
    /\ isLoading = FALSE
    /\ loadError = Null
    /\ shouldAutoPlayRef = FALSE
    /\ blobUrlsRef = {}
    /\ audio = [src |-> NoSrc, paused |-> TRUE, readyState |-> "loading"]
    /\ revoked = {}
    /\ reads = EmptyBag
    /\ openFiles = EmptyBag
    /\ tryPlay = 0
    /\ checkReady = 0
    /\ boombox \in BOOLEAN
    /\ stored = [parsable |-> TRUE, tracks |-> <<>>, playlists |-> <<>>]
    /\ last = {}
    /\ args = <<>>
    /\ cycle = [origin |-> -1, count |-> 0]

\* ------------------------------------------------------------------ start
\* the first render and its commit, on an empty store: the persist effect has
\* written the empty library, the track-change effect has cleared the element
Fresh(bridge) ==
    [tracks |-> <<>>, playlists |-> <<>>, selectedPlaylistId |-> All,
     activeView |-> "home", searchQuery |-> <<>>,
     srcMap |-> [k \in {} |-> NoSrc], currentIndex |-> -1, isPlaying |-> FALSE,
     currentTime |-> 0, duration |-> 0, isLoading |-> FALSE,
     loadError |-> Null, shouldAutoPlayRef |-> FALSE,
     blobUrlsRef |-> {}, audio |-> [src |-> NoSrc, paused |-> TRUE, readyState |-> "loading"],
     revoked |-> {}, reads |-> EmptyBag,
     openFiles |-> EmptyBag, tryPlay |-> 0, checkReady |-> 0,
     boombox |-> bridge, stored |-> [parsable |-> TRUE, tracks |-> <<>>, playlists |-> <<>>]]

\* a stored value that JSON.parse rejects
Unparsable == [parsable |-> FALSE, tracks |-> <<>>, playlists |-> <<>>]

\* a load effect whose catch shows the error
load_showsError(s, saved) ==
    IF ~saved.parsable THEN [s EXCEPT !.loadError = <<"Failed to load library">>]
    ELSE [s EXCEPT !.tracks = [i \in DOMAIN saved.tracks |->
                                  [id |-> saved.tracks[i].id, path |-> saved.tracks[i].path,
                                   file |-> FALSE, title |-> saved.tracks[i].title]],
                   !.playlists = saved.playlists]

\* the load effect: JSON.parse in a try with an empty catch, setTracks and
\* setPlaylists; a loaded track has an id, a path and a title
load(s, saved) ==
    IF ~saved.parsable THEN s
    ELSE [s EXCEPT !.tracks = [i \in DOMAIN saved.tracks |->
                                  [id |-> saved.tracks[i].id, path |-> saved.tracks[i].path,
                                   file |-> FALSE, title |-> saved.tracks[i].title]],
                   !.playlists = saved.playlists]

\* the application starts on the stored value saved: the effects of the
\* first commit, then those of the commit the load effect causes
start(bridge, saved) == Effects(Fresh(bridge), load(Fresh(bridge), saved))

\* ------------------------------------------------------------------ actions: library
UnknownId == <<"unknown">>

\* dialog.showOpenDialog(mainWindow, ...) is modal to the window: no input
\* reaches the page while it is open
Interactive == openFiles = EmptyBag

\* handleAddFiles up to openFiles()
HandleAddFiles ==
    /\ Interactive
    /\ boombox
    /\ Commit({}, [St EXCEPT !.openFiles = @ (+) SetToBag({currentIndex})])

OpenFilesDone ==
    \E captured \in BagToSet(openFiles), filePaths \in PathLists, now \in Clock :
        Commit(IF Len(filePaths) > 0 THEN {"addPaths"} ELSE {},
               addFiles([St EXCEPT !.openFiles = @ (-) SetToBag({captured})],
                        captured, filePaths, now))

OnFileInput ==
    /\ Interactive
    /\ \E files \in FileLists : Commit({}, onFileInput(St, files))

InPlaylists(trackId) == \E i \in DOMAIN playlists : trackId \in Range(playlists[i].trackIds)

\* deleteTrack of a track of the library, confirmed
DeleteTrack ==
    /\ Interactive
    /\ \E trackId \in Ids(tracks) :
           Commit((IF CurrentId(St) = trackId THEN {"deleteCurrent"} ELSE {})
                  \cup (IF InPlaylists(trackId) THEN {"deleteMember"} ELSE {}),
                  deleteTrack(St, trackId, TRUE))

\* deleteTrack with an id that no track has, or declined in confirm()
DeleteDeclined ==
    /\ Interactive
    /\ \E trackId \in Ids(tracks) \cup {UnknownId}, confirmed \in BOOLEAN :
           /\ trackId \notin Ids(tracks) \/ ~confirmed
           /\ Commit({"deleteDeclined"}, deleteTrack(St, trackId, confirmed))

CreatePlaylist ==
    /\ Interactive
    /\ \E name \in Names, now \in Stamps :
           Call({"createPlaylist"}, <<name, now>>, createPlaylist(St, name, now))

DeletePlaylist ==
    /\ Interactive
    /\ \E playlistId \in PlaylistIds(St) \cup {UnknownId}, confirmed \in BOOLEAN :
           Call({"deletePlaylist"}, <<playlistId, confirmed>>,
                deletePlaylist(St, playlistId, confirmed))

SelectPlaylist ==
    /\ Interactive
    /\ \E id \in PlaylistIds(St) \cup {All} :
           Commit({}, [St EXCEPT !.selectedPlaylistId = id, !.activeView = "library"])

\* the application is closed and started again; the stored value is the one
\* last written, or one that cannot be parsed
Reload ==
    \E damaged \in BOOLEAN :
        /\ Step(start(boombox, IF damaged THEN Unparsable ELSE stored))
        /\ last' = {"reload"} \cup (IF damaged THEN {"malformed"} ELSE {})
        /\ args' = <<>>

\* the Explore and Library buttons
ShowView ==
    /\ Interactive
    /\ \E view \in {"home", "library"} : Commit({"view"}, [St EXCEPT !.activeView = view])

\* onChange of the search field, and its clear button
SetSearchQuery ==
    /\ Interactive
    /\ \E query \in Queries : Commit({"search"}, [St EXCEPT !.searchQuery = query])

AddToSelectedPlaylist ==
    /\ Interactive
    /\ \E trackId \in Ids(tracks) \cup {UnknownId},
          target \in PlaylistIds(St) \cup {Null, UnknownId} :
           Call({"addToPlaylist"}, <<trackId, target>>,
                addToSelectedPlaylist(St, trackId, target))

RemoveFromPlaylist ==
    /\ Interactive
    /\ \E trackId \in Ids(tracks) \cup {UnknownId} :
           Commit({}, removeFromPlaylist(St, trackId))

\* ------------------------------------------------------------------ actions: playback
PlayIndex ==
    /\ Interactive
    /\ \E index \in -1..Len(tracks) :
           Commit(IF index >= 0 /\ index < Len(tracks) THEN {"playIndex"} ELSE {},
                  playIndex(St, index))

\* the transport buttons: prev and next are disabled when there is no current
\* track or no track at all, play/pause when there is no current track or
\* the session is loading
Transport == HasCurrent(St) /\ Len(tracks) # 0

NextTrack ==
    /\ Interactive
    /\ Transport
    /\ Commit({"next"} \cup (IF Len(tracks) >= 2 /\ currentIndex = Len(tracks) - 1
                              THEN {"wrap"} ELSE {}), next(St))

PrevTrack ==
    /\ Interactive
    /\ Transport
    /\ Commit({"prev"} \cup (IF Len(tracks) >= 2 /\ currentIndex = 0
                              THEN {"wrap"} ELSE {}), prev(St))

PlayPause ==
    /\ Interactive
    /\ HasCurrent(St) /\ ~isLoading
    /\ Commit({"playPause"}, playPause(St))

\* setTimeout(resolve, 5000) of playPause: the wait ends and play() is called
CheckReadyTimeout ==
    /\ checkReady > 0
    /\ Commit({}, playAttempt([St EXCEPT !.checkReady = @ - 1]))

\* readAudio(path) settles: ok when it resolves, not ok when it rejects
ReadAudioDone ==
    \E r \in BagToSet(reads), ok \in BOOLEAN :
        Commit((IF r.cancelled THEN {"stale"} ELSE {}) \cup (IF ok THEN {} ELSE {"failed"}),
               readAudioDone(St, r, ok))

\* element events
LoadedMetadata ==
    /\ audio.readyState = "loading" /\ audio.src # NoSrc
    /\ Commit({}, handleLoadedMetadata(St))

CanPlay ==
    /\ audio.readyState = "meta"
    /\ Commit({"canplay"}, handleCanPlay(St))

\* setTimeout(resolve, 5000) of the auto-play: the promise is resolved, and
\* nothing awaits it; the tryPlay listener stays attached
TryPlayTimeout ==
    /\ tryPlay > 0
    /\ Commit({"abandoned"}, St)

ElementError ==
    /\ audio.readyState = "loading"
    /\ Commit({"error"}, handleError(St))

Ended ==
    /\ audio.readyState = "ready" /\ ~audio.paused
    /\ Commit({"ended"}, handleEnded(St))

TimeUpdate ==
    /\ audio.readyState = "ready" /\ ~audio.paused
    /\ Commit({}, onTimeUpdate(St))

\* ------------------------------------------------------------------ specifications
\* at most MaxLoading reads are in flight
Loading == BagCardinality(reads) <= MaxLoading

\* the playback session: commands, element events and a changing library
Next ==
    /\ UNCHANGED cycle
    /\ \/ HandleAddFiles /\ Loading'
       \/ OpenFilesDone /\ Loading'
       \/ OnFileInput /\ Loading'
       \/ DeleteTrack /\ Loading'
       \/ PlayIndex /\ Loading'
       \/ NextTrack /\ Loading'
       \/ PrevTrack /\ Loading'
       \/ PlayPause
       \/ CheckReadyTimeout
       \/ ReadAudioDone
       \/ LoadedMetadata
       \/ CanPlay
       \/ ElementError
       \/ Ended /\ Loading'
       \/ TimeUpdate

Spec == Init /\ [][Next]_vars

\* the media source resolver: selections, library changes and reads in flight
NextResolve ==
    /\ UNCHANGED cycle
    /\ \/ HandleAddFiles
       \/ OpenFilesDone
       \/ OnFileInput
       \/ DeleteTrack
       \/ PlayIndex
       \/ NextTrack
       \/ PrevTrack
       \/ ReadAudioDone

SpecResolve == Init /\ [][NextResolve]_vars

\* at most MaxShelf playlists
Shelf == Len(playlists) <= MaxShelf

\* the library store and the playlists
NextLibrary ==
    /\ UNCHANGED cycle
    /\ \/ HandleAddFiles
       \/ OpenFilesDone
       \/ OnFileInput
       \/ DeleteTrack
       \/ DeleteDeclined
       \/ CreatePlaylist /\ Shelf'
       \/ DeletePlaylist
       \/ SelectPlaylist
       \/ AddToSelectedPlaylist
       \/ RemoveFromPlaylist

SpecLibrary == Init /\ [][NextLibrary]_vars

\* a step that is no call of next(): the count starts again
Restart == cycle' = [origin |-> currentIndex', count |-> 0]

\* a call of next(): one more in succession, or the first after a full round
Counted ==
    cycle' = IF cycle.count >= Len(tracks)
             THEN [origin |-> currentIndex, count |-> 1]
             ELSE [cycle EXCEPT !.count = @ + 1]

\* navigation: calls of next() in succession, between changes of the library
\* and other selections; reads settle in between
NextCycle ==
    \/ HandleAddFiles /\ Loading' /\ Restart
    \/ OpenFilesDone /\ Loading' /\ Restart
    \/ OnFileInput /\ Loading' /\ Restart
    \/ DeleteTrack /\ Loading' /\ Restart
    \/ PlayIndex /\ Loading' /\ Restart
    \/ PrevTrack /\ Loading' /\ Restart
    \/ NextTrack /\ Loading' /\ Counted
    \/ ReadAudioDone /\ UNCHANGED cycle

SpecCycle == Init /\ [][NextCycle]_vars

\* the playback of File tracks: every command and every event of the
\* element and of its timers, without the bridge
NextPlayback ==
    /\ UNCHANGED cycle
    /\ \/ OnFileInput
       \/ DeleteTrack
       \/ DeleteDeclined
       \/ PlayIndex
       \/ NextTrack
       \/ PrevTrack
       \/ PlayPause
       \/ CheckReadyTimeout
       \/ TryPlayTimeout
       \/ LoadedMetadata
       \/ CanPlay
       \/ ElementError
       \/ Ended
       \/ TimeUpdate

SpecPlayback == Init /\ [][NextPlayback]_vars

\* Loading and what ends it. The bridge settles every read, timers fire, and
\* a bound element goes on to signal its metadata, 'canplay' or 'error'.
NextLive ==
    /\ UNCHANGED cycle
    /\ \/ HandleAddFiles /\ Loading'
       \/ OpenFilesDone /\ Loading'
       \/ DeleteTrack
       \/ PlayIndex /\ Loading'
       \/ PlayPause
       \/ ReadAudioDone
       \/ CheckReadyTimeout
       \/ TryPlayTimeout
       \/ LoadedMetadata
       \/ CanPlay
       \/ ElementError

\* the steps that do not wait for the user
ReadSettles == ReadAudioDone /\ UNCHANGED cycle
ReadyTimerFires == CheckReadyTimeout /\ UNCHANGED cycle
AutoPlayTimerFires == TryPlayTimeout /\ UNCHANGED cycle
ElementSignal == (LoadedMetadata \/ CanPlay \/ ElementError) /\ UNCHANGED cycle

SpecLive ==
    /\ Init
    /\ [][NextLive]_vars
    /\ WF_vars(ReadSettles)
    /\ WF_vars(ReadyTimerFires)
    /\ WF_vars(AutoPlayTimerFires)
    /\ WF_vars(ElementSignal)

\* the playlists: File tracks come and go, playlists are created, selected,
\* edited and deleted
NextPlaylists ==
    /\ UNCHANGED cycle
    /\ \/ OnFileInput
       \/ DeleteTrack
       \/ CreatePlaylist
       \/ DeletePlaylist
       \/ SelectPlaylist
       \/ AddToSelectedPlaylist
       \/ RemoveFromPlaylist

SpecPlaylists == Init /\ [][NextPlaylists]_vars

\* the playlist filter: playlists are created, selected and deleted while
\* the search field and the view buttons are used
NextFilter ==
    /\ UNCHANGED cycle
    /\ \/ OnFileInput
       \/ CreatePlaylist
       \/ DeletePlaylist
       \/ SelectPlaylist
       \/ AddToSelectedPlaylist
       \/ ShowView
       \/ SetSearchQuery

SpecFilter == Init /\ [][NextFilter]_vars

\* the track list: tracks are added, playlists are created, filled and
\* selected, the view is changed and a query is typed
NextVisible ==
    /\ UNCHANGED cycle
    /\ \/ HandleAddFiles
       \/ OpenFilesDone
       \/ OnFileInput
       \/ CreatePlaylist /\ Shelf'
       \/ AddToSelectedPlaylist
       \/ SelectPlaylist
       \/ ShowView
       \/ SetSearchQuery

SpecVisible == Init /\ [][NextVisible]_vars

\* the library over restarts: tracks and playlists change, and the
\* application is closed and started again
NextRestart ==
    /\ UNCHANGED cycle
    /\ \/ HandleAddFiles
       \/ OpenFilesDone
       \/ OnFileInput
       \/ DeleteTrack
       \/ CreatePlaylist /\ Shelf'
       \/ AddToSelectedPlaylist
       \/ Reload

SpecRestart == Init /\ [][NextRestart]_vars

\* ------------------------------------------------------------------ claims
\* C1: in every state reached by adding and deleting tracks and creating,
\* deleting and editing playlists, every playlist's trackIds holds only
\* identities of tracks that are in the library.
C1_MembersInLibrary ==
    \A i \in DOMAIN playlists : Range(playlists[i].trackIds) \subseteq Ids(tracks)

\* a track that was in a playlist has just been deleted, and a playlist
\* still has a member
C1_Witness ==
    /\ "deleteMember" \in last
    /\ \E i \in DOMAIN playlists : playlists[i].trackIds # <<>>

\* the program's state: everything but the history
state == <<tracks, playlists, selectedPlaylistId, activeView, searchQuery, srcMap, currentIndex, isPlaying,
           currentTime, duration, isLoading, loadError, shouldAutoPlayRef,
           blobUrlsRef, audio, revoked, reads, openFiles, tryPlay, checkReady, boombox,
           stored>>

\* the identity of the current track, <<>> when there is none
Current == CurrentId(St)

\* the current track has a source: a File, or a path the bridge can read
Sourced == HasCurrent(St) /\ (currentTrack(St).file \/ boombox)

\* the current track is being loaded for playback: its bytes are being read
\* for the effect that is in force, or its URL has just been bound, from
\* position 0, with an attempt to play waiting for the element
LoadStarted ==
    \/ \E r \in BagToSet(reads) : ~r.cancelled /\ r.track.id = Current
    \/ /\ audio.src # NoSrc
       /\ audio.src = Lookup(srcMap, Current)
       /\ audio.readyState = "loading"
       /\ currentTime = 0
       /\ tryPlay > 0

\* C2: a confirmed deleteTrack of the current track keeps the other tracks in
\* their order, sets the current index to -1 and leaves the transport idle:
\* not playing, not loading, no source bound.
C2_DeleteCurrentIdle ==
    [][("deleteCurrent" \in last') =>
          /\ tracks' = SelectSeq(tracks, LAMBDA x : x.id # Current)
          /\ currentIndex' = -1
          /\ ~isPlaying'
          /\ ~isLoading'
          /\ audio'.src = NoSrc]_vars

\* C3: the arrival of a resolution whose effect was cleaned up leaves the
\* element alone, and whenever a source is bound to the element it is the
\* URL cached for the track that is current then.
C3_StaleNeverBinds ==
    [][/\ ("stale" \in last') => audio' = audio
       /\ (audio'.src # audio.src /\ audio'.src # NoSrc) =>
              /\ Current' # <<>>
              /\ audio'.src = Lookup(srcMap', Current')]_vars

\* a stale resolution has just arrived with a URL, for a track other than the
\* current one, whose own source is the one bound
C3_Witness ==
    /\ "stale" \in last
    /\ audio.src # NoSrc
    /\ audio.src = Lookup(srcMap, Current)
    /\ \E k \in DOMAIN srcMap : k # Current

\* C4: the arrival of a stale resolution, while a newer track is selected,
\* changes none of isLoading, loadError, isPlaying, currentTime, duration.
C4_StaleArrivalNoOp ==
    [][("stale" \in last' /\ Current # <<>>) =>
          UNCHANGED <<isLoading, loadError, isPlaying, currentTime, duration>>]_vars

\* C5: when a track becomes current whose identity has a live entry in
\* srcMap, that URL is the one bound, no read is started and no URL is made.
C5_CacheHit ==
    [][("cached" \in last') =>
          /\ audio'.src = Lookup(srcMap, Current')
          /\ Lookup(srcMap', Current') = Lookup(srcMap, Current')
          /\ BagCardinality(reads') <= BagCardinality(reads)
          /\ \A r \in BagToSet(reads') : r.cancelled
          /\ blobUrlsRef' \subseteq blobUrlsRef]_vars

\* a track has just been made current again and was served from the cache
C5_Witness ==
    /\ "cached" \in last
    /\ audio.src = Lookup(srcMap, Current)
    /\ Cardinality(DOMAIN srcMap) >= 2

\* C6: when nothing is in flight, the keys of srcMap are identities of tracks
\* in the library.
C6_QuiescentCacheInLibrary ==
    (reads = EmptyBag /\ openFiles = EmptyBag) => DOMAIN srcMap \subseteq Ids(tracks)

\* C7: every URL in srcMap is in blobUrlsRef and has not been revoked, and a
\* URL bound to the element is live when it is bound.
C7_CachedUrlsLive ==
    /\ [](\A k \in DOMAIN srcMap : srcMap[k] \in blobUrlsRef /\ srcMap[k] \notin revoked)
    /\ [][(audio'.src # audio.src /\ audio'.src # NoSrc) =>
             (audio'.src \in blobUrlsRef' /\ audio'.src \notin revoked')]_vars

\* the current track has just been deleted, its URL revoked, and the cache
\* still holds the URL of another track
C7_Witness ==
    /\ "deleteCurrent" \in last
    /\ DOMAIN srcMap # {}

\* C8: at the end of a track, the track at (i + 1) mod n becomes current and,
\* when it has a source, it is loaded for playback from position 0.
C8_EndedAdvances ==
    [][("ended" \in last') =>
          /\ currentIndex' = (currentIndex + 1) % Len(tracks)
          /\ Sourced' => LoadStarted']_vars

\* C9: playIndex(i), i in bounds, stops playback and loads track i for
\* playback from position 0.
C9_PlayIndexLoads ==
    [][("playIndex" \in last') =>
          /\ audio'.paused
          /\ Sourced' => LoadStarted']_vars

C11_NextCycle ==
    (Len(tracks) >= 1 /\ cycle.count = Len(tracks)) => currentIndex = cycle.origin

\* two calls of next() in succession on a library of two tracks have been made
C11_Witness ==
    /\ Len(tracks) = 2
    /\ cycle.count = 2
    /\ "next" \in last
    /\ currentIndex = cycle.origin

\* the current track's source is being resolved: a read for it, for the
\* effect that is in force, is in flight
Resolving == \E r \in BagToSet(reads) : ~r.cancelled /\ r.track.id = Current

\* C12: from the change of the current track until the new track's source is
\* bound, the element is not bound to the URL of the previous track.
C12_TornDownBeforeBind ==
    Resolving => (audio.src = NoSrc \/ audio.src = Lookup(srcMap, Current))

\* the resolution of the current track's source has failed: the load error
\* names the current track, nothing is being read for it and the element is
\* not bound to its URL
FailedCurrent ==
    /\ HasCurrent(St)
    /\ Len(loadError) = 2
    /\ loadError[2] = currentTrack(St).title
    /\ ~Resolving
    /\ (audio.src = NoSrc \/ audio.src # Lookup(srcMap, Current))

\* C13: a failed read leaves the current index as it is, and a playPause()
\* after the failure, before a source of the current track is bound, starts
\* no playback.
C13_FailedUnplayable ==
    [][/\ ("failed" \in last') => currentIndex' = currentIndex
       /\ ("playPause" \in last' /\ FailedCurrent) => (audio'.paused /\ ~isPlaying')]_vars

\* C14: when the read of a track's bytes fails, loadError names that track,
\* isLoading is false, srcMap and blobUrlsRef are as before, nothing is bound
\* and the library and the playlists are unchanged.
C14_ReadFailure ==
    [][("failed" \in last') =>
          /\ \E r \in BagToSet(reads) :
                /\ reads' = reads (-) SetToBag({r})
                /\ loadError' = <<"Failed to load: ", r.track.title>>
          /\ ~isLoading'
          /\ srcMap' = srcMap
          /\ blobUrlsRef' = blobUrlsRef
          /\ audio' = audio
          /\ UNCHANGED <<tracks, playlists, currentIndex>>]_vars

\* the read for the current track has just failed
C14_Witness ==
    /\ "failed" \in last
    /\ "stale" \notin last
    /\ HasCurrent(St)
    /\ loadError = <<"Failed to load: ", currentTrack(St).title>>
    /\ Current \notin DOMAIN srcMap

\* the steps that ask for playback: playIndex, next, prev and the end of a track
Transported == {"playIndex", "next", "prev", "ended"}

\* C15: a track that becomes current and is bound by a step that is no
\* playIndex, next, prev or end of track gets no attempt to play.
C15_AutoPlayOnlyOnTransport ==
    [][(/\ Current' # Current
        /\ last' \cap Transported = {}
        /\ audio'.src # audio.src
        /\ audio'.src # NoSrc) => tryPlay' <= tryPlay]_vars

\* C16: once the wait of an auto-play attempt has timed out, the readiness
\* of the element does not start playback on its behalf.
C16_AbandonedNeverPlays ==
    [][("abandoned" \in last /\ "canplay" \in last' /\ checkReady = 0 /\ audio.paused) =>
          (audio'.paused /\ ~isPlaying')]_vars

\* C17: an error of the element sets loadError and clears isPlaying and
\* leaves tracks, playlists and currentIndex alone; and while the element is
\* in error and nothing is being read or awaited for the current track, the
\* prev, next and play/pause controls are enabled.
C17_ErrorKeepsSessionUsable ==
    /\ [][("error" \in last') =>
             /\ loadError' = <<"Failed to play audio">>
             /\ ~isPlaying'
             /\ UNCHANGED <<tracks, playlists, currentIndex>>]_vars
    /\ []((/\ HasCurrent(St)
           /\ audio.readyState = "error"
           /\ ~Resolving
           /\ checkReady = 0) => (Transport /\ ~isLoading))

\* C18: no two tracks of the library have the same identity.
C18_UniqueIds == Distinct(TrackIdList(tracks))

\* C19: adding a non-empty list of paths appends one track per path, in the
\* order of the list, after the tracks there were, which are unchanged; the
\* title of each is the last segment of its path; and when the library was
\* empty, the first added track becomes current.
C19_AddPaths ==
    [][("addPaths" \in last') =>
          \E q \in PathLists :
              /\ Len(q) > 0
              /\ Len(tracks') = Len(tracks) + Len(q)
              /\ SubSeq(tracks', 1, Len(tracks)) = tracks
              /\ \A i \in DOMAIN q :
                    /\ tracks'[Len(tracks) + i].path = q[i]
                    /\ tracks'[Len(tracks) + i].title = q[i][Len(q[i])]
                    /\ ~tracks'[Len(tracks) + i].file
              /\ (Len(tracks) = 0) => currentIndex' = 0]_vars

\* C20: a deleteTrack(id) with an id that no track has, or whose
\* confirmation is declined, changes nothing: tracks, playlists, current
\* index, transport state and cache are as before.
C20_DeleteDeclined ==
    [][("deleteDeclined" \in last') => UNCHANGED state]_vars

\* a deletion has just been declined, or asked for an unknown id, while a
\* track is current, bound, cached and playing
C20_Witness ==
    /\ "deleteDeclined" \in last
    /\ HasCurrent(St)
    /\ isPlaying
    /\ audio.src # NoSrc
    /\ audio.src = Lookup(srcMap, Current)

\* the playlist a call of addToSelectedPlaylist with the arguments a is about
Target(a) == IF a[2] # Null THEN a[2] ELSE selectedPlaylistId

\* C21: addToSelectedPlaylist(trackId, playlistId) leaves the playlists as they
\* are when the track is not in the library, the playlist does not exist or
\* it contains trackId already; otherwise trackId is appended to that playlist
\* and no other playlist changes. No playlist holds an identity twice.
C21_AddToPlaylist ==
    /\ [](\A i \in DOMAIN playlists : Distinct(playlists[i].trackIds))
    /\ [][("addToPlaylist" \in last') =>
             IF \/ args'[1] \notin Ids(tracks)
                \/ Target(args') \notin PlaylistIds(St)
                \/ \E i \in DOMAIN playlists :
                       /\ playlists[i].id = Target(args')
                       /\ args'[1] \in Range(playlists[i].trackIds)
             THEN playlists' = playlists
             ELSE \E i \in DOMAIN playlists :
                     /\ playlists[i].id = Target(args')
                     /\ playlists' = [playlists EXCEPT ![i].trackIds = Append(@, args'[1])]]_vars

RemoveAt(q, i) == SubSeq(q, 1, i - 1) \o SubSeq(q, i + 1, Len(q))

\* C23: a confirmed deletePlaylist(id) of a playlist removes that playlist,
\* leaves the other playlists, the tracks, the current index and the
\* transport state as they are, and sets the selected filter to 'all' when
\* it was the deleted playlist, and leaves it otherwise.
C23_DeletePlaylist ==
    [][("deletePlaylist" \in last' /\ args'[2] /\ args'[1] \in PlaylistIds(St)) =>
          /\ \E i \in DOMAIN playlists :
                /\ playlists[i].id = args'[1]
                /\ playlists' = RemoveAt(playlists, i)
          /\ selectedPlaylistId' = IF selectedPlaylistId = args'[1] THEN All
                                   ELSE selectedPlaylistId
          /\ UNCHANGED <<tracks, currentIndex, isPlaying, isLoading, currentTime, duration,
                         loadError, audio, srcMap, blobUrlsRef>>]_vars

\* the title of track x contains the text, whatever the case of the letters
Contains(x, text) ==
    \E k \in 0..(Len(Letters(x.title)) - Len(text)) :
        \A j \in DOMAIN text : lowerCase(Letters(x.title)[k + j]) = lowerCase(text[j])

\* track x is shown: it is a member of the selected playlist, when one is
\* selected, and its title contains the trimmed query, when that is not empty
Shown(x) ==
    /\ (selectedPlaylistId # All /\ selectedPlaylistId \in PlaylistIds(St)) =>
           \E i \in DOMAIN playlists :
               playlists[i].id = selectedPlaylistId /\ x.id \in Range(playlists[i].trackIds)
    /\ (trim(searchQuery) # <<>>) => Contains(x, trim(searchQuery))

\* C24: visibleTracks is the subsequence of the library's tracks, in the
\* order of the library, of the tracks that belong to the selected playlist,
\* when the filter is a playlist, and whose title contains the trimmed
\* query without regard to case, when that query is not empty.
C24_VisibleTracks == visibleTracks(St) = SelectSeq(tracks, Shown)

\* a playlist is selected and a query is typed, with blanks around it and in
\* another case than the title, and one of two tracks is shown
C24_Witness ==
    /\ Len(tracks) = 2
    /\ selectedPlaylistId # All
    /\ searchQuery = <<" ", "b", " ">>
    /\ Len(visibleTracks(St)) = 1
    /\ visibleTracks(St)[1].title = "B.wav"

\* the state with the playlist filter set to id
Filtered(id) == [St EXCEPT !.selectedPlaylistId = id]

\* C25: for the library, every playlist filter and every query, filtering by
\* playlist and then by search gives the sequence that filtering by search
\* and then by playlist gives, and each filter applied twice gives what it
\* gives applied once.
C25_FiltersCommute ==
    \A id \in PlaylistIds(St) \cup {All}, text \in Queries :
        /\ bySearch(byPlaylist(tracks, Filtered(id)), text)
               = byPlaylist(bySearch(tracks, text), Filtered(id))
        /\ bySearch(bySearch(tracks, text), text) = bySearch(tracks, text)
        /\ byPlaylist(byPlaylist(tracks, Filtered(id)), Filtered(id))
               = byPlaylist(tracks, Filtered(id))

\* the playlist filter and the search each show one of two tracks, and not
\* the same one
C25_Witness ==
    /\ Len(tracks) = 2
    /\ Len(byPlaylist(tracks, St)) = 1
    /\ Len(bySearch(tracks, searchQuery)) = 1
    /\ byPlaylist(tracks, St) # bySearch(tracks, searchQuery)
    /\ visibleTracks(St) = <<>>

\* the tracks of the library that have a path
Persistent == SelectSeq(tracks, LAMBDA x : x.path # NoPath)

\* C26: in every state the stored snapshot holds the tracks that have a
\* path, as id, path and title and in the order of the library, and the
\* playlists, and no track without a path; and a start on the snapshot
\* last written gives a library of exactly the tracks that had a path, and
\* the playlists there were.
C26_SnapshotIsProjection ==
    /\ [](/\ stored.parsable
          /\ Len(stored.tracks) = Len(Persistent)
          /\ \A i \in DOMAIN stored.tracks :
                stored.tracks[i] = [id |-> Persistent[i].id, path |-> Persistent[i].path,
                                    title |-> Persistent[i].title]
          /\ stored.playlists = playlists)
    /\ [][("reload" \in last' /\ "malformed" \notin last') =>
             /\ tracks' = Persistent
             /\ playlists' = playlists
             /\ stored' = stored]_vars

\* the application has just been started again on a snapshot of a library
\* that had a track without a path: the track with a path and the playlist
\* are there
C26_Witness ==
    /\ "reload" \in last
    /\ "malformed" \notin last
    /\ Len(tracks) = 1
    /\ tracks[1].path # NoPath
    /\ Len(playlists) = 1
    /\ \E id \in Range(playlists[1].trackIds) : id[1] = "file"

\* C27: a start on a stored value that cannot be parsed gives the session of
\* a first start: no tracks, no playlists, no error shown, nothing loading
\* and no dialog open, so that every command is available; the snapshot is
\* written anew.
C27_MalformedSnapshot ==
    [][("malformed" \in last') =>
          /\ tracks' = <<>>
          /\ playlists' = <<>>
          /\ loadError' = Null
          /\ currentIndex' = -1
          /\ ~isLoading'
          /\ ~isPlaying'
          /\ Interactive'
          /\ stored' = [parsable |-> TRUE, tracks |-> <<>>, playlists |-> <<>>]]_vars

\* the application has just been started on a damaged snapshot
C27_Witness ==
    /\ "malformed" \in last
    /\ tracks = <<>>
    /\ playlists = <<>>
    /\ loadError = Null

\* C28: isPlaying becomes true only in a step in which the element starts
\* to play, and in every state, the element's events being delivered,
\* isPlaying is true exactly when the element is not paused.
C28_StatusFollowsElement ==
    /\ [](isPlaying = ~audio.paused)
    /\ [][(~isPlaying /\ isPlaying') => (audio.paused /\ ~audio'.paused)]_vars

\* C29: every URL of the live set is the value of an entry of srcMap, also
\* after resolutions for one identity that overlapped, so that an identity
\* has one entry and one live URL; and a URL leaves the live set only in a
\* step that removes its track from the library.
C29_CacheOwnsLiveUrls ==
    /\ [](\A url \in blobUrlsRef : \E k \in DOMAIN srcMap : srcMap[k] = url)
    /\ [][\A url \in blobUrlsRef \ blobUrlsRef' :
             \E k \in DOMAIN srcMap : srcMap[k] = url /\ k \notin Ids(tracks')]_vars

\* C30: no two playlists have the same identity.
C30_UniquePlaylistIds ==
    \A i, j \in DOMAIN playlists : i # j => playlists[i].id # playlists[j].id

\* C31: whenever the trimmed query is not empty the active view is
\* 'library'; a change of the query made in another view, to a query that is
\* not blank, sets the selected filter to 'all'; a change of the query made
\* in the library view leaves the selected filter as it is.
C31_SearchShowsLibrary ==
    /\ [](trim(searchQuery) # <<>> => activeView = "library")
    /\ [][("search" \in last') =>
             IF activeView = "library"
             THEN UNCHANGED <<activeView, selectedPlaylistId>>
             ELSE IF trim(searchQuery') # <<>>
                  THEN activeView' = "library" /\ selectedPlaylistId' = All
                  ELSE UNCHANGED <<activeView, selectedPlaylistId>>]_vars

\* a query has just been typed while a playlist is shown in the library view
C31_Witness ==
    /\ "search" \in last
    /\ trim(searchQuery) # <<>>
    /\ activeView = "library"
    /\ selectedPlaylistId # All

\* C32: the current index is -1 or an index into the library
\* (0 <= currentIndex < number of tracks).
C32_IndexInRange ==
    currentIndex = -1 \/ (0 <= currentIndex /\ currentIndex < Len(tracks))

\* a confirmed deleteTrack of a track that is not the current one: the only
\* step of a session that shortens the library without the 'deleteCurrent' mark
DeletesOther ==
    /\ Len(tracks') < Len(tracks)
    /\ "deleteCurrent" \notin last'
    /\ "reload" \notin last'

\* C33: a confirmed deleteTrack of a track that is not the current one leaves
\* the same track current (by identity) and leaves isPlaying, the source
\* bound to the element and the elapsed time as they are.
C33_DeleteOtherKeepsCurrent ==
    [][DeletesOther =>
          /\ Current' = Current
          /\ isPlaying' = isPlaying
          /\ audio'.src = audio.src
          /\ audio'.paused = audio.paused
          /\ currentTime' = currentTime]_vars

\* the element is playing: not paused, with a source, not in error
Playing == ~audio.paused /\ audio.src # NoSrc /\ audio.readyState # "error"

\* C34: whenever the element is playing there is a current track and the
\* source bound to the element is not the URL cached for another track.
C34_PlaysCurrentTrack ==
    Playing => /\ HasCurrent(St)
               /\ \A k \in DOMAIN srcMap : srcMap[k] = audio.src => k = Current

\* C35: isLoading never stays true for ever: whenever it is true it is false
\* again later, the reads, the timers and the element's signals all occurring.
C35_LoadingEnds == isLoading ~> ~isLoading

\* tracks are added, by path or by file, to a library that is not empty
AddsToLibrary ==
    /\ Len(tracks) > 0
    /\ Len(tracks') > Len(tracks)
    /\ "reload" \notin last'

\* C36: adding tracks to a library that is not empty leaves the current
\* track as it is: the same track is current afterwards, or none as before.
C36_AddKeepsCurrent ==
    [][AddsToLibrary => Current' = Current]_vars

\* C37: right after the application has started again from the stored
\* snapshot, every identity in a playlist is the identity of a track of the
\* restored library.
C37_RestoredMembersInLibrary ==
    "reload" \in last =>
        \A i \in DOMAIN playlists : Range(playlists[i].trackIds) \subseteq Ids(tracks)

\* C38: the selected filter is 'all' or the identity of a playlist that
\* exists, and with a playlist selected every visible track is a member of it.
C38_SelectedExists ==
    \/ selectedPlaylistId = All
    \/ /\ selectedPlaylistId \in PlaylistIds(St)
       /\ \A i \in DOMAIN visibleTracks(St) :
              visibleTracks(St)[i].id \in Range(findPlaylist(St, selectedPlaylistId).trackIds)

\* a playlist has just been deleted while another one, which has a member,
\* is selected
C38_Witness ==
    /\ "deletePlaylist" \in last
    /\ args[2]
    /\ selectedPlaylistId # All
    /\ args[1] # selectedPlaylistId
    /\ Len(playlists) = 1
    /\ visibleTracks(St) # <<>>

====
